---- MODULE Spec2Model ----
(***************************************************************************)
(* Educational video platform (src/main.py) with its provisioning scripts  *)
(* (src/add_users.py, src/debug_check.py): the relational store (users,    *)
(* lessons, videos), the JWT cookie credential, the role gates, the upload *)
(* coordinator, the approval workflow, lesson deletion and the startup     *)
(* migration.                                                              *)
(***************************************************************************)
EXTENDS Integers, Sequences, FiniteSets, TLC

(* ------------------------------ bounds -------------------------------- *)
\* at most this many rows in the videos table
MaxVideos == 2
\* request instants lie within MaxSkew seconds of 0 and of the token TTL
MaxSkew == 1
\* bytes a multipart request body adds around the file part (at least 1)
MultipartOverhead == 512

(* ------------------------- program constants -------------------------- *)
ACCESS_TOKEN_EXPIRE_MINUTES == 60
\* timedelta(minutes=ACCESS_TOKEN_EXPIRE_MINUTES) in whole seconds
TTL == ACCESS_TOKEN_EXPIRE_MINUTES * 60
\* app.add_middleware(FileSizeLimitMiddleware, size_limit=100 * 1024 * 1024)
size_limit == 100 * 1024 * 1024
\* validate_file_size(video_file, max_size=100 * 1024 * 1024)
max_size == 100 * 1024 * 1024
allowed_types == {"video/mp4", "video/webm", "video/quicktime"}

UserRole == {"student", "teacher", "admin"}
VideoStatus == {"pending", "approved", "rejected"}

\* add_users.py / debug_check.py: the provisioned accounts
users_to_add ==
    { [username |-> "JAYAN",    role |-> "admin"],
      [username |-> "Vedant",   role |-> "admin"],
      [username |-> "Jubin",    role |-> "teacher"],
      [username |-> "Shreeram", role |-> "student"] }

(* ------------------------------ inputs -------------------------------- *)
\* usernames a visitor may submit to /register
RegisterNames == {"newbie"}
\* usernames submitted to /login: an account of each role, a registered one
Usernames == {"Vedant", "Jubin", "Shreeram"} \cup RegisterNames
Titles == {"Algebra"}
Categories == {"Math", "Science"}
Languages == {"English", "Hindi"}
ContentTypes == {"video/mp4", "text/plain"}
\* payload lengths in bytes: empty, small, one over the ceiling
FileSizes == {0, 1, max_size + 1}
NoContentLength == -1
\* the instants at which requests arrive (whole seconds, as timegm() gives)
Times == (0 .. MaxSkew) \cup ((TTL - MaxSkew) .. (TTL + MaxSkew))

(* ---------------------------- null values ----------------------------- *)
None == [username |-> "", role |-> "none"]
NoToken == [sig |-> "none", sub |-> "", exp |-> 0]
Malformed == [sig |-> "malformed", sub |-> "", exp |-> 0]
NoSub == ""
\* approval_status of a row of a videos table that has no such column
NoColumn == "no_column"
NULL == "NULL"

VARIABLES
    phase,    \* "boot" before initialize_database() has run, then "running"
    schema,   \* videos.db: "none" (no tables), "legacy" (videos without
              \* approval_status), "current"
    users,    \* rows of the users table: [username, role]
    lessons,  \* rows of the lessons table: [id, title, category]
    videos,   \* rows of the videos table:
              \* [id, lesson_id, language, public_id, approval_status]
    now,      \* datetime.utcnow() in whole seconds
    cookie,   \* the browser's access_token cookie (NoToken when absent)
    last,     \* the last request handled and the response it produced
    uploads,  \* POST /upload requests in flight, one per worker: the
              \* handler's position (pc) and its local variables
    deleting  \* the POST /lesson/{id}/delete request in flight: its
              \* position and the rows its session has loaded

vars ==
    <<phase, schema, users, lessons, videos, now, cookie, last, uploads,
      deleting>>

(* ------------------------------ helpers ------------------------------- *)
SetMax(S) == IF S = {} THEN 0 ELSE CHOOSE m \in S : \A x \in S : x <= m

\* SQLite INTEGER PRIMARY KEY without AUTOINCREMENT: largest rowid + 1
NextId(rows) == SetMax({r.id : r \in rows}) + 1

\* db.query(User).filter(User.username == username).first()
UserByName(username) ==
    IF \E u \in users : u.username = username
    THEN CHOOSE u \in users : u.username = username
    ELSE None

\* db.query(Lesson).filter(Lesson.title == title).first()
LessonByTitle(title) == {l \in lessons : l.title = title}

\* Lesson.videos: relationship("Video", back_populates="lesson")
LessonVideos(lesson_id) == {v \in videos : v.lesson_id = lesson_id}

\* The response to the last request: the handler (op), the failure kind or
\* "ok" (outcome), the HTTP status, the identity get_current_user resolved,
\* the lessons handed to the template, the steps the handler performed in
\* order (trace), and the form fields it read (form).
NoRequest ==
    [op |-> "none", outcome |-> "none", status |-> 0, user |-> None,
     lessons |-> {}, trace |-> <<>>, form |-> <<>>]

Response(op, outcome, status, user, ls, trace) ==
    [op |-> op, outcome |-> outcome, status |-> status, user |-> user,
     lessons |-> ls, trace |-> trace, form |-> <<>>]

(* ------------------------ requests in flight ------------------------- *)
\* the upload requests that can be in flight together
Workers == {1, 2}

\* a worker with no upload in flight
Idle ==
    [pc |-> "idle", user |-> None, title |-> "", category |-> "",
     language |-> "", size |-> 0, lesson_id |-> 0]

NoLesson == [id |-> 0, title |-> "", category |-> ""]

\* no deletion in flight
NotDeleting ==
    [pc |-> "idle", user |-> None, lesson |-> NoLesson, video_ids |-> {}]

(* ------------------------- the store on disk -------------------------- *)
LegacyLesson == [id |-> 1, title |-> "Algebra", category |-> "Math"]

\* n rows of a videos table created before approval_status existed
LegacyVideos(n) ==
    { [id |-> i, lesson_id |-> 1, language |-> "English",
       public_id |-> "pid", approval_status |-> NoColumn] : i \in 1 .. n }

Init ==
    /\ phase = "boot"
    /\ now = 0
    /\ cookie = NoToken
    /\ last = NoRequest
    /\ uploads = [w \in Workers |-> Idle]
    /\ deleting = NotDeleting
    /\ \/ /\ schema = "none"
          /\ users = {}
          /\ lessons = {}
          /\ videos = {}
       \/ /\ schema = "legacy"
          /\ users \in {{}, users_to_add}
          /\ lessons = {LegacyLesson}
          /\ \E n \in 1 .. MaxVideos : videos = LegacyVideos(n)

(* ----------------------- startup migration ---------------------------- *)
\* SQLite: ALTER TABLE videos ADD COLUMN approval_status TEXT DEFAULT
\* 'pending'. Rows that existed before the column read the column default.
AlterAddColumn(rows) ==
    { [v EXCEPT !.approval_status = "pending"] : v \in rows }

\* UPDATE videos SET approval_status = 'approved'
\*   WHERE approval_status IS NULL OR approval_status = ''
UpdateBackfill(rows) ==
    { [v EXCEPT !.approval_status =
          IF @ = NULL \/ @ = "" THEN "approved" ELSE @] : v \in rows }

initialize_database ==
    /\ phase = "boot"
    /\ phase' = "running"
    /\ schema' = "current"
    /\ videos' = IF schema = "legacy"
                 THEN UpdateBackfill(AlterAddColumn(videos))
                 ELSE videos
    /\ last' = Response("initialize_database", "ok", 0, None, {},
                        IF schema = "legacy" THEN <<"alter_table", "update">>
                        ELSE <<>>)
    /\ UNCHANGED <<users, lessons, now, cookie,
                 uploads, deleting>>

(* --------------------------- credentials ------------------------------ *)
\* jwt.encode({"sub": ..., "exp": utcnow() + timedelta(minutes=60)}, ...)
create_access_token(sub) ==
    [sig |-> "valid", sub |-> sub, exp |-> now + TTL]

\* python-jose exception classes; ExpiredSignatureError and JWTClaimsError
\* are subclasses of JWTError
JWTErrorClasses == {"JWTError", "ExpiredSignatureError", "JWTClaimsError"}

\* mutant: a token is expired from the instant of its exp on
jwt_decode_ExpiredAtExp(token, t) ==
    IF token.sig # "valid"
    THEN [exc |-> "JWTError", sub |-> NoSub]
    ELSE IF token.exp <= t
    THEN [exc |-> "ExpiredSignatureError", sub |-> NoSub]
    ELSE [exc |-> "none", sub |-> token.sub]

\* jose.jwt.decode(token, SECRET_KEY, algorithms=[ALGORITHM]) at time t:
\* the signature is verified first, then the claims; python-jose's
\* _validate_exp raises ExpiredSignatureError `if exp < (now - leeway)`
\* with leeway 0, now = timegm(utcnow().utctimetuple()).
jwt_decode(token, t) ==
    IF token.sig # "valid"
    THEN [exc |-> "JWTError", sub |-> NoSub]
    ELSE IF token.exp < t
    THEN [exc |-> "ExpiredSignatureError", sub |-> NoSub]
    ELSE [exc |-> "none", sub |-> token.sub]

\* mutant: only the exact class JWTError is caught
ExceptJWTError_ExactClass(exc) == exc = "JWTError"

\* An `except JWTError` clause catches the class and its subclasses.
ExceptJWTError(exc) == exc \in JWTErrorClasses

\* The dependency's result: the user (or None) or the exception it raised,
\* and the statement that produced it (path).
get_current_user(token) ==
    IF token = NoToken
    THEN [exc |-> "none", user |-> None, path |-> "no_cookie"]
    ELSE LET payload == jwt_decode(token, now) IN
         IF payload.exc # "none"
         THEN IF ExceptJWTError(payload.exc)
              THEN [exc |-> "none", user |-> None, path |-> payload.exc]
              ELSE [exc |-> payload.exc, user |-> None, path |-> payload.exc]
         ELSE IF payload.sub = NoSub
         THEN [exc |-> "none", user |-> None, path |-> "no_sub"]
         ELSE [exc |-> "none", user |-> UserByName(payload.sub),
               path |-> "user_query"]

\* mutant: the admin gate lets teachers through
get_current_admin_user_TeacherToo(current) ==
    IF current.exc # "none" THEN current
    ELSE IF current.user = None \/ current.user.role \notin {"admin", "teacher"}
    THEN [current EXCEPT !.exc = "HTTP_403_FORBIDDEN"]
    ELSE current

get_current_admin_user(current) ==
    IF current.exc # "none" THEN current
    ELSE IF current.user = None \/ current.user.role # "admin"
    THEN [current EXCEPT !.exc = "HTTP_403_FORBIDDEN"]
    ELSE current

get_current_teacher_or_admin_user(current) ==
    IF current.exc # "none" THEN current
    ELSE IF current.user = None \/ current.user.role \notin {"admin", "teacher"}
    THEN [current EXCEPT !.exc = "HTTP_403_FORBIDDEN"]
    ELSE current

\* What a client can put in the access_token cookie of a request: nothing,
\* garbage, the cookie the server set, that cookie with a broken signature,
\* or a signed token that carries no "sub" claim.
Presentable ==
    {NoToken, Malformed} \cup
    (IF cookie = NoToken THEN {}
     ELSE {cookie, [cookie EXCEPT !.sig = "bad"],
           [cookie EXCEPT !.sub = NoSub]})

\* How a dependency's exception ends the request.
DependencyFailure(op, dep) ==
    IF dep.exc = "HTTP_403_FORBIDDEN"
    THEN Response(op, "Forbidden", 403, dep.user, {}, <<>>)
    ELSE Response(op, "InternalServerError", 500, None, {}, <<>>)

(* ----------------------- accounts and sessions ------------------------ *)
\* POST /register
register_user(username) ==
    /\ phase = "running"
    /\ IF UserByName(username) # None
       THEN /\ users' = users
            /\ last' = Response("register", "Conflict", 200, None, {}, <<>>)
       ELSE /\ users' = users \cup {[username |-> username, role |-> "student"]}
            /\ last' = Response("register", "ok", 302, None, {}, <<>>)
    /\ UNCHANGED <<phase, schema, lessons, videos, now, cookie,
                 uploads, deleting>>

\* POST /login; password_ok is verify_password(password, user.hashed_password)
login_for_access_token(username, password_ok) ==
    /\ phase = "running"
    /\ LET user == UserByName(username) IN
       IF user = None \/ ~password_ok
       THEN /\ cookie' = cookie
            /\ last' = Response("login", "Unauthenticated", 200, None, {}, <<>>)
       ELSE /\ cookie' = create_access_token(user.username)
            /\ last' = Response("login", "ok", 302, user, {}, <<>>)
    /\ UNCHANGED <<phase, schema, users, lessons, videos, now,
                 uploads, deleting>>

\* GET /logout
logout ==
    /\ phase = "running"
    /\ cookie # NoToken
    /\ cookie' = NoToken
    /\ last' = Response("logout", "ok", 307, None, {}, <<>>)
    /\ UNCHANGED <<phase, schema, users, lessons, videos, now,
                 uploads, deleting>>

\* add_users.py: insert or update every account of users_to_add
add_users ==
    /\ schema # "none"
    /\ users' = {u \in users :
                    \A a \in users_to_add : a.username # u.username}
                \cup users_to_add
    /\ last' = NoRequest
    /\ UNCHANGED <<phase, schema, lessons, videos, now, cookie,
                 uploads, deleting>>

\* UPDATE videos SET approval_status = 'pending' WHERE approval_status IS NULL
UpdateNullToPending(rows) ==
    { [v EXCEPT !.approval_status = IF @ = NULL THEN "pending" ELSE @]
        : v \in rows }

\* debug_check.py fix_database_and_users: add the column if it is missing,
\* DELETE FROM users, recreate the provisioned accounts
fix_database_and_users ==
    /\ schema # "none"
    /\ schema' = "current"
    /\ videos' = UpdateNullToPending(
                    IF schema = "legacy" THEN AlterAddColumn(videos)
                    ELSE videos)
    /\ users' = users_to_add
    /\ last' = NoRequest
    /\ UNCHANGED <<phase, lessons, now, cookie,
                 uploads, deleting>>

\* time passes between requests
Tick ==
    /\ \E t \in Times : t > now /\ now' = t
    /\ last' = NoRequest
    /\ UNCHANGED <<phase, schema, users, lessons, videos, cookie,
                 uploads, deleting>>

(* ------------------------- content listing ---------------------------- *)
\* lang values of GET /: absent, "All", or a language
LangFilters == {"", "All"} \cup Languages

\* db.query(Lesson).join(Video).filter(Video.approval_status == approved)
\*   [.filter(Video.language == lang)].distinct().all()
ApprovedLessons(lang) ==
    { l \in lessons :
        \E v \in videos :
            /\ v.lesson_id = l.id
            /\ v.approval_status = "approved"
            /\ (lang # "" /\ lang # "All") => v.language = lang }

\* The videos a rendered lesson carries: the template receives Lesson
\* entities, whose `videos` attribute is the unfiltered relationship.
ExposedVideos(ls) == UNION { LessonVideos(l.id) : l \in ls }

\* GET /; query_fails: the approval-filtered queries raise;
\* fallback_fails: the fallback queries raise too
index(token, lang, query_fails, fallback_fails) ==
    /\ phase = "running"
    /\ LET current == get_current_user(token)
           seen == <<current.path>>
       IN
       last' =
         IF current.exc # "none"
         THEN [DependencyFailure("index", current) EXCEPT !.trace = seen]
         ELSE IF current.user = None
         THEN Response("index", "LoginRedirect", 307, None, {}, seen)
         ELSE IF ~query_fails
         THEN Response("index", "ok", 200, current.user,
                       ApprovedLessons(lang), seen \o <<"approved_query">>)
         ELSE IF ~fallback_fails
         THEN Response("index", "ok", 200, current.user, lessons,
                       seen \o <<"approved_query", "fallback_query">>)
         ELSE Response("index", "DatabaseError", 200, current.user, {},
                       seen \o <<"approved_query", "fallback_query">>)
    /\ UNCHANGED <<phase, schema, users, lessons, videos, now, cookie,
                 uploads, deleting>>

(* ------------------------------ upload -------------------------------- *)
\* FileSizeLimitMiddleware.dispatch on a multipart POST: TRUE when the
\* request is answered 413 before the application sees it
MiddlewareRejects(content_length) ==
    content_length # NoContentLength /\ content_length > size_limit

\* mutant: every content type passes
validate_file_type_AcceptsAll(content_type) == TRUE

validate_file_type(content_type) == content_type \in allowed_types

\* validate_file_size: TRUE when len(content) does not exceed the ceiling
validate_file_size(size) == ~(size > max_size)

\* mutant: new rows default to approved
Video_approval_status_default_Approved == "approved"

\* Column(Enum(VideoStatus), default=VideoStatus.pending, nullable=False)
Video_approval_status_default == "pending"

\* Video(video_url=..., language=..., public_id=..., lesson_id=lesson.id)
NewVideo(lesson_id, language) ==
    [id |-> NextId(videos), lesson_id |-> lesson_id, language |-> language,
     public_id |-> "pid", approval_status |-> Video_approval_status_default]

\* mutant: an existing lesson takes the category of the upload
ResolveLesson_TakesCategory(title, category) ==
    IF LessonByTitle(title) # {}
    THEN [(CHOOSE l \in LessonByTitle(title) : TRUE)
            EXCEPT !.category = category]
    ELSE [id |-> NextId(lessons), title |-> title, category |-> category]

\* lesson = query(title).first(); if not lesson: add Lesson(title, category)
ResolveLesson(title, category) ==
    IF LessonByTitle(title) # {}
    THEN CHOOSE l \in LessonByTitle(title) : TRUE
    ELSE [id |-> NextId(lessons), title |-> title, category |-> category]

\* mutant: every exception raised in the try block is taken by the
\* generic clause
ExceptClause_GenericOnly(exc) == "Exception"

\* try: ... except HTTPException as e: raise e / except Exception as e: ...
\* The clause that takes an exception of class exc.
ExceptClause(exc) ==
    IF exc = "HTTPException" THEN "HTTPException" ELSE "Exception"

\* The response to an HTTPException(status) raised inside the try block:
\* re-raised as it is, or rendered by the generic clause.
Raise(outcome, status, user, trace) ==
    IF ExceptClause("HTTPException") = "HTTPException"
    THEN Response("upload", outcome, status, user, {}, trace)
    ELSE Response("upload", "UploadFailed", 200, user, {}, trace)

\* mutant: the rollback also undoes the lesson insert committed before it
rollback_UndoesCommit(committed) ==
    [lessons |-> lessons, videos |-> videos]

\* db.rollback(): discards what the session has not committed; the rows
\* committed before it stay
rollback(committed) == committed

\* outcomes of cloudinary.uploader.upload
MediaUploadResults == {"ok", "no_secure_url", "no_public_id", "raises"}

\* The handler's run on one request: the response and the rows it commits.
UploadRun(token, title, category, language, content_type, size, content_length, media) ==
    LET mw == IF MiddlewareRejects(content_length)
              THEN <<"middleware_size_check">> ELSE <<>>
        dep == get_current_teacher_or_admin_user(get_current_user(token))
        lesson == ResolveLesson(title, category)
        created == IF lesson \in lessons THEN <<"lesson_query">>
                   ELSE <<"lesson_query", "lesson_insert">>
        t1 == mw \o <<"validate_file_type">>
        t2 == t1 \o <<"validate_file_size">>
        t3 == t2 \o created
        t4 == t3 \o <<"media_upload">>
        form == <<title, category>>
        keep == [lessons |-> lessons, videos |-> videos]
        withLesson == [lessons |-> lessons \cup {lesson}, videos |-> videos]
    IN
    IF MiddlewareRejects(content_length)
    THEN [resp |-> Response("upload", "PayloadTooLarge", 413, None, {}, mw),
          db |-> keep]
    ELSE IF dep.exc # "none"
    THEN [resp |-> [DependencyFailure("upload", dep) EXCEPT !.trace = mw],
          db |-> keep]
    ELSE IF ~validate_file_type(content_type)
    THEN [resp |-> Raise("UnsupportedMediaType", 400, dep.user, t1),
          db |-> keep]
    ELSE IF ~validate_file_size(size)
    THEN [resp |-> Raise("PayloadTooLarge", 413, dep.user, t2),
          db |-> keep]
    ELSE IF size = 0
    THEN [resp |-> [Raise("EmptyPayload", 400, dep.user, t3)
                      EXCEPT !.form = form],
          db |-> withLesson]
    ELSE IF media = "raises"
    THEN [resp |-> [Response("upload", "UploadFailed", 200, dep.user, {}, t4)
                      EXCEPT !.form = form],
          db |-> rollback(withLesson)]
    ELSE IF media # "ok"
    THEN [resp |-> [Response("upload", "StorageIntegrityError", 200,
                             dep.user, {}, t4) EXCEPT !.form = form],
          db |-> rollback(withLesson)]
    ELSE [resp |-> [Response("upload", "ok",
                             IF dep.user.role = "teacher" THEN 200 ELSE 302,
                             dep.user, {}, t4 \o <<"video_insert">>)
                      EXCEPT !.form = form],
          db |-> [lessons |-> lessons \cup {lesson},
                  videos |-> videos \cup {NewVideo(lesson.id, language)}]]

\* POST /upload
handle_video_upload(token, title, category, language, content_type, size, content_length, media) ==
    /\ phase = "running"
    /\ LET run == UploadRun(token, title, category, language, content_type,
                            size, content_length, media) IN
       /\ Cardinality(run.db.videos) <= MaxVideos
       /\ last' = run.resp
       /\ lessons' = run.db.lessons
       /\ videos' = run.db.videos
    /\ UNCHANGED <<phase, schema, users, now, cookie,
                 uploads, deleting>>

(* ------------------------- approval workflow -------------------------- *)
\* the values a client may send as VideoStatusUpdate.status
StatusInputs == VideoStatus \cup {"archived"}

\* mutant: a rejected video stays rejected
SetStatus_RejectedTerminal(video, status) ==
    IF video.approval_status = "rejected" THEN video
    ELSE [video EXCEPT !.approval_status = status]

\* video_to_update.approval_status = update.status
SetStatus(video, status) == [video EXCEPT !.approval_status = status]

\* logger.info(f"... updated video {video_id} from '{old_status}' to
\* '{update.status}'")
LogStatusChange(found, status) ==
    <<(CHOOSE v \in found : TRUE).approval_status, status>>

\* PATCH /api/admin/videos/{video_id}/status
update_video_status(token, video_id, status) ==
    /\ phase = "running"
    /\ LET dep == get_current_admin_user(get_current_user(token))
           found == {v \in videos : v.id = video_id}
       IN
       IF dep.exc # "none"
       THEN /\ last' = DependencyFailure("update", dep)
            /\ videos' = videos
       ELSE IF status \notin VideoStatus
       THEN /\ last' = Response("update", "ValidationError", 422, dep.user,
                                {}, <<>>)
            /\ videos' = videos
       ELSE IF found = {}
       THEN /\ last' = Response("update", "NotFound", 404, dep.user, {}, <<>>)
            /\ videos' = videos
       ELSE /\ last' = Response("update", "ok", 200, dep.user, {},
                                <<"commit">> \o LogStatusChange(found, status))
            /\ videos' = {IF v \in found THEN SetStatus(v, status) ELSE v
                            : v \in videos}
    /\ UNCHANGED <<phase, schema, users, lessons, now, cookie,
                 uploads, deleting>>

(* --------------------------- lesson deletion -------------------------- *)
SetMin(S) == CHOOSE m \in S : \A x \in S : m <= x

\* outcomes of cloudinary.uploader.destroy: a result (deleted or not), or
\* an exception
DestroyResults == {"ok", "not found", "raises"}

\* for video in lesson_to_delete.videos: if video.public_id: destroy(...)
\* The calls made, in id order, up to and including the first that raises.
RECURSIVE DestroyLoop(_, _)
DestroyLoop(ids, results) ==
    IF ids = {} THEN <<>>
    ELSE LET i == SetMin(ids)
             v == CHOOSE x \in videos : x.id = i
         IN IF v.public_id = "" THEN DestroyLoop(ids \ {i}, results)
            ELSE IF results[i] = "raises" THEN <<"destroy: raises">>
            ELSE <<"destroy: " \o results[i]>>
                 \o DestroyLoop(ids \ {i}, results)

Raised(trace) == \E k \in 1 .. Len(trace) : trace[k] = "destroy: raises"

\* mutant: the lesson row goes, its videos stay
CascadeDelete_NoCascade(lesson) ==
    [lessons |-> lessons \ {lesson}, videos |-> videos]

\* db.delete(lesson_to_delete): cascade="all, delete-orphan"
CascadeDelete(lesson) ==
    [lessons |-> lessons \ {lesson},
     videos |-> videos \ LessonVideos(lesson.id)]

\* POST /lesson/{lesson_id}/delete
delete_lesson(token, lesson_id, results) ==
    /\ phase = "running"
    /\ LET dep == get_current_admin_user(get_current_user(token))
           found == {l \in lessons : l.id = lesson_id}
       IN
       IF dep.exc # "none"
       THEN /\ last' = DependencyFailure("delete", dep)
            /\ UNCHANGED <<lessons, videos>>
       ELSE IF found = {}
       THEN /\ last' = Response("delete", "NotFound", 404, dep.user, {}, <<>>)
            /\ UNCHANGED <<lessons, videos>>
       ELSE LET lesson == CHOOSE l \in found : TRUE
                trace == DestroyLoop({v.id : v \in LessonVideos(lesson.id)},
                                     results)
            IN IF Raised(trace)
               THEN /\ last' = Response("delete", "DeleteFailed", 500,
                                        dep.user, {}, trace)
                    /\ UNCHANGED <<lessons, videos>>
               ELSE /\ last' = Response("delete", "ok", 302, dep.user, {},
                                        trace \o <<"commit">>)
                    /\ lessons' = CascadeDelete(lesson).lessons
                    /\ videos' = CascadeDelete(lesson).videos
    /\ UNCHANGED <<phase, schema, users, now, cookie,
                 uploads, deleting>>

(* --------------------------- specifications --------------------------- *)
\* the cookie a browser sends: none, or the one the server set
SessionTokens == {NoToken, cookie}

VideoIds == {v.id : v \in videos}
LessonIds == {l.id : l \in lessons}

\* Upload outcomes decided before the handler reads title, category,
\* language or calls the media host.
EarlyOutcomes ==
    {"PayloadTooLarge", "Forbidden", "InternalServerError",
     "UnsupportedMediaType"}

Title0 == CHOOSE t \in Titles : TRUE
Category0 == CHOOSE c \in Categories : TRUE
Language0 == CHOOSE l \in Languages : TRUE

\* POST /upload over its inputs. A form field the handler never reads on
\* the path taken is sent with one fixed value, the others with every value.
UploadRequests ==
    \E token \in SessionTokens, content_type \in ContentTypes,
       size \in FileSizes, header \in BOOLEAN :
       LET content_length ==
               IF header THEN size + MultipartOverhead ELSE NoContentLength
           probe == UploadRun(token, Title0, Category0, Language0,
                              content_type, size, content_length, "ok")
       IN
       IF probe.resp.outcome \in EarlyOutcomes
       THEN handle_video_upload(token, Title0, Category0, Language0,
                                content_type, size, content_length, "ok")
       ELSE \E title \in Titles, category \in Categories :
               IF probe.resp.outcome = "EmptyPayload"
               THEN handle_video_upload(token, title, category, Language0,
                        content_type, size, content_length, "ok")
               ELSE \/ \E language \in Languages :
                          handle_video_upload(token, title, category,
                              language, content_type, size, content_length,
                              "ok")
                    \/ \E media \in MediaUploadResults \ {"ok"} :
                          handle_video_upload(token, title, category,
                              Language0, content_type, size, content_length,
                              media)

\* POST /lesson/{lesson_id}/delete over its inputs: the media host's answers
\* vary only when the handler reaches the deletion loop.
DeleteRequests ==
    \E token \in SessionTokens, lesson_id \in LessonIds \cup {NextId(lessons)} :
       LET ids == {v.id : v \in LessonVideos(lesson_id)}
           dep == get_current_admin_user(get_current_user(token))
       IN IF dep.exc # "none"
          THEN delete_lesson(token, lesson_id, [i \in ids |-> "ok"])
          ELSE \E results \in [ids -> DestroyResults] :
                  delete_lesson(token, lesson_id, results)

\* GET / over its inputs; a request that resolves to no user is redirected
\* before lang is read or a query is made.
IndexRequests(tokens) ==
    \E token \in tokens :
       IF get_current_user(token).user = None
       THEN index(token, "", FALSE, FALSE)
       ELSE \E lang \in LangFilters, query_fails \in BOOLEAN,
               fallback_fails \in BOOLEAN :
               /\ fallback_fails => query_fails
               /\ index(token, lang, query_fails, fallback_fails)

\* PATCH /api/admin/videos/{video_id}/status over its inputs; the gate
\* answers before the path and the body are used.
UpdateRequests ==
    \E token \in SessionTokens :
       IF get_current_admin_user(get_current_user(token)).exc # "none"
       THEN \E video_id \in VideoIds \cup {NextId(videos)} :
               update_video_status(token, video_id, "approved")
       ELSE \E video_id \in VideoIds \cup {NextId(videos)},
               status \in StatusInputs :
               update_video_status(token, video_id, status)

Requests ==
    \/ IndexRequests(SessionTokens)
    \/ UploadRequests
    \/ UpdateRequests
    \/ DeleteRequests

Sessions ==
    \/ \E username \in Usernames, password_ok \in BOOLEAN :
          login_for_access_token(username, password_ok)
    \/ logout

\* The content workflow at one instant: the store's handlers, sessions and
\* provisioning, with no passage of time.
Next ==
    \/ initialize_database
    \/ add_users
    \/ Sessions
    \/ Requests

Spec == Init /\ [][Next]_vars

\* Credentials over time: accounts, sessions and the listing request, with
\* the clock advancing between requests.
NextAuth ==
    \/ initialize_database
    \/ add_users
    \/ fix_database_and_users
    \/ \E username \in RegisterNames : register_user(username)
    \/ Sessions
    \/ Tick
    \/ IndexRequests(Presentable)

SpecAuth == Init /\ [][NextAuth]_vars

(* ----------------------- interleaved requests ------------------------ *)
\* the accounts whose requests overlap: an admin and a teacher
Clients == {"Vedant", "Jubin"}

\* The cookies of the clients whose requests overlap: none, or the token
\* the server issued to an account at login.
ClientTokens == {NoToken} \cup {create_access_token(n) : n \in Clients}

InFlight == {w \in Workers : uploads[w].pc # "idle"}

\* mutant: the title column carries no uniqueness constraint
Lesson_title_unique_Off == FALSE

\* Lesson.title = Column(String, unique=True, index=True)
Lesson_title_unique == TRUE

\* POST /upload up to its store read: the gates, the two validations and
\* the lesson lookup. The handler then stands before the lesson insert
\* (title not found) or before reading the file (title found). A step that
\* ends no request leaves no response to read (last is NoRequest).
UploadBegin(w, token, title, category, language, content_type, size, content_length) ==
    /\ phase = "running"
    /\ uploads[w].pc = "idle"
    /\ LET probe == UploadRun(token, title, category, language,
                              content_type, size, content_length, "ok")
           found == LessonByTitle(title)
       IN
       IF probe.resp.outcome \in EarlyOutcomes
       THEN /\ last' = probe.resp
            /\ UNCHANGED uploads
       ELSE \* bound: the video ids in use and in flight stay below MaxVideos
            /\ SetMax(VideoIds) + Cardinality(InFlight) < MaxVideos
            /\ uploads' = [uploads EXCEPT ![w] =
                  [pc |-> IF found = {} THEN "lesson_insert" ELSE "file_read",
                   user |-> probe.resp.user, title |-> title,
                   category |-> category, language |-> language,
                   size |-> size,
                   lesson_id |-> IF found = {} THEN 0
                                 ELSE (CHOOSE l \in found : TRUE).id]]
            /\ last' = NoRequest
    /\ UNCHANGED <<phase, schema, users, lessons, videos, now, cookie,
                 deleting>>

\* db.add(lesson); db.commit(); db.refresh(lesson). When the title has been
\* taken since the lookup, the commit raises IntegrityError, which the
\* generic clause takes: rollback, "Upload failed".
UploadLessonCommit(w) ==
    /\ uploads[w].pc = "lesson_insert"
    /\ LET u == uploads[w]
           t == <<"lesson_query", "lesson_insert">>
       IN
       IF Lesson_title_unique /\ LessonByTitle(u.title) # {}
       THEN /\ ExceptClause("IntegrityError") = "Exception"
            /\ last' = [Response("upload", "UploadFailed", 200, u.user, {},
                                 t \o <<"IntegrityError">>)
                          EXCEPT !.form = <<u.title, u.category>>]
            /\ uploads' = [uploads EXCEPT ![w] = Idle]
            /\ lessons' = rollback([lessons |-> lessons,
                                    videos |-> videos]).lessons
       ELSE /\ lessons' = lessons \cup
                  {[id |-> NextId(lessons), title |-> u.title,
                    category |-> u.category]}
            /\ uploads' = [uploads EXCEPT ![w].pc = "file_read",
                                          ![w].lesson_id = NextId(lessons)]
            /\ last' = NoRequest
    /\ UNCHANGED <<phase, schema, users, videos, now, cookie, deleting>>

\* file_content = await video_file.read(); the empty check; then
\* cloudinary.uploader.upload and the check of its result
UploadMedia(w, media) ==
    /\ uploads[w].pc = "file_read"
    /\ LET u == uploads[w]
           form == <<u.title, u.category>>
       IN
       IF u.size = 0
       THEN /\ last' = [Raise("EmptyPayload", 400, u.user, <<"file_read">>)
                          EXCEPT !.form = form]
            /\ uploads' = [uploads EXCEPT ![w] = Idle]
       ELSE IF media = "raises"
       THEN /\ last' = [Response("upload", "UploadFailed", 200, u.user, {},
                                 <<"file_read", "media_upload">>)
                          EXCEPT !.form = form]
            /\ uploads' = [uploads EXCEPT ![w] = Idle]
       ELSE IF media # "ok"
       THEN /\ last' = [Response("upload", "StorageIntegrityError", 200,
                                 u.user, {}, <<"file_read", "media_upload">>)
                          EXCEPT !.form = form]
            /\ uploads' = [uploads EXCEPT ![w] = Idle]
       ELSE /\ uploads' = [uploads EXCEPT ![w].pc = "video_insert"]
            /\ last' = NoRequest
    /\ UNCHANGED <<phase, schema, users, lessons, videos, now, cookie,
                 deleting>>

\* db.add(Video(..., lesson_id=lesson.id)); db.commit(): lesson.id is the
\* value the session loaded; SQLite does not enforce the foreign key
\* (PRAGMA foreign_keys is off unless a connection turns it on).
UploadVideoCommit(w) ==
    /\ uploads[w].pc = "video_insert"
    /\ LET u == uploads[w] IN
       /\ videos' = videos \cup {NewVideo(u.lesson_id, u.language)}
       /\ last' = [Response("upload", "ok",
                            IF u.user.role = "teacher" THEN 200 ELSE 302,
                            u.user, {}, <<"video_insert">>)
                     EXCEPT !.form = <<u.title, u.category>>]
       /\ uploads' = [uploads EXCEPT ![w] = Idle]
    /\ UNCHANGED <<phase, schema, users, lessons, now, cookie, deleting>>

\* POST /lesson/{lesson_id}/delete up to its store reads: the gate, the
\* lesson query and the load of lesson_to_delete.videos
DeleteBegin(token, lesson_id) ==
    /\ phase = "running"
    /\ deleting.pc = "idle"
    /\ LET dep == get_current_admin_user(get_current_user(token))
           found == {l \in lessons : l.id = lesson_id}
       IN
       IF dep.exc # "none"
       THEN /\ last' = DependencyFailure("delete", dep)
            /\ UNCHANGED deleting
       ELSE IF found = {}
       THEN /\ last' = Response("delete", "NotFound", 404, dep.user, {}, <<>>)
            /\ UNCHANGED deleting
       ELSE LET lesson == CHOOSE l \in found : TRUE IN
            /\ deleting' =
                  [pc |-> "destroy", user |-> dep.user, lesson |-> lesson,
                   video_ids |-> {v.id : v \in LessonVideos(lesson.id)}]
            /\ last' = NoRequest
    /\ UNCHANGED <<phase, schema, users, lessons, videos, now, cookie,
                 uploads>>

\* the destroy loop over the videos the session loaded
DeleteMedia(results) ==
    /\ deleting.pc = "destroy"
    /\ LET trace == DestroyLoop(deleting.video_ids, results) IN
       IF Raised(trace)
       THEN /\ last' = Response("delete", "DeleteFailed", 500, deleting.user,
                                {}, trace)
            /\ deleting' = NotDeleting
       ELSE /\ deleting' = [deleting EXCEPT !.pc = "commit"]
            /\ last' = NoRequest
    /\ UNCHANGED <<phase, schema, users, lessons, videos, now, cookie,
                 uploads>>

\* db.delete(lesson_to_delete); db.commit(): the unit of work deletes, by
\* primary key, the lesson and the videos of the collection it loaded.
SessionDelete(lesson, video_ids) ==
    [lessons |-> {l \in lessons : l.id # lesson.id},
     videos |-> {v \in videos : v.id \notin video_ids}]

DeleteCommit ==
    /\ deleting.pc = "commit"
    /\ lessons' = SessionDelete(deleting.lesson, deleting.video_ids).lessons
    /\ videos' = SessionDelete(deleting.lesson, deleting.video_ids).videos
    /\ last' = Response("delete", "ok", 302, deleting.user, {}, <<"commit">>)
    /\ deleting' = NotDeleting
    /\ UNCHANGED <<phase, schema, users, now, cookie, uploads>>

\* The upload requests that start while others are in flight, each taken
\* by the first free worker. The language is copied into the Video row and
\* decides no branch: it is sent with one value.
UploadArrivals ==
    \E token \in ClientTokens, content_type \in ContentTypes,
       size \in FileSizes, header \in BOOLEAN :
       LET w == SetMin((Workers \ InFlight) \cup {SetMax(Workers)})
           content_length ==
               IF header THEN size + MultipartOverhead ELSE NoContentLength
           probe == UploadRun(token, Title0, Category0, Language0,
                              content_type, size, content_length, "ok")
       IN
       IF probe.resp.outcome \in EarlyOutcomes
       THEN UploadBegin(w, token, Title0, Category0, Language0,
                        content_type, size, content_length)
       ELSE \E title \in Titles, category \in Categories :
               UploadBegin(w, token, title, category, Language0,
                           content_type, size, content_length)

UploadSteps ==
    \E w \in Workers :
       \/ UploadLessonCommit(w)
       \/ \E media \in MediaUploadResults : UploadMedia(w, media)
       \/ UploadVideoCommit(w)

DeleteSteps ==
    \/ \E token \in ClientTokens, lesson_id \in LessonIds \cup {NextId(lessons)} :
          DeleteBegin(token, lesson_id)
    \/ \E results \in [deleting.video_ids -> DestroyResults] :
          DeleteMedia(results)
    \/ DeleteCommit

\* PATCH /api/admin/videos/{video_id}/status, handled in one step (it has
\* one store commit and no media-host call)
StatusUpdates ==
    \E token \in ClientTokens :
       IF get_current_admin_user(get_current_user(token)).exc # "none"
       THEN update_video_status(token, NextId(videos), "approved")
       ELSE \E video_id \in VideoIds \cup {NextId(videos)},
               status \in StatusInputs :
               update_video_status(token, video_id, status)

\* The content workflow with requests of several clients overlapping: an
\* upload can be overtaken between its lesson lookup, its lesson commit, its
\* media-host call and its video commit; a deletion between its loads, its
\* media-host calls and its commit.
NextRace ==
    \/ initialize_database
    \/ add_users
    \/ UploadArrivals
    \/ UploadSteps
    \/ DeleteSteps
    \/ StatusUpdates

SpecRace == Init /\ [][NextRace]_vars

(* ============================== claims ================================ *)
\* The actor behind a request of the content workflow: the account the
\* cookie was issued to, or nobody.
Actor(token) ==
    IF token # NoToken /\ token = cookie THEN UserByName(cookie.sub)
    ELSE None

\* C2: for every existing video and every actor, update_video_status
\* succeeds iff the actor's role is admin; for every other actor it ends in
\* Forbidden (403) and the videos are unchanged.
C2_UpdateIffAdmin ==
    [][\A token \in SessionTokens, video_id \in VideoIds,
          status \in VideoStatus :
          (last'.op = "update"
             /\ update_video_status(token, video_id, status)) =>
             IF Actor(token).role = "admin"
             THEN last'.outcome = "ok"
             ELSE /\ last'.outcome = "Forbidden"
                  /\ last'.status = 403
                  /\ videos' = videos]_vars

\* a teacher's status update on an existing video was refused
C2_Witness ==
    /\ last.op = "update"
    /\ last.outcome = "Forbidden"
    /\ last.user.role = "teacher"
    /\ videos # {}

\* C1: whenever the listing (GET /, with or without a language filter,
\* fallback path included) answers a student or a teacher, every video
\* carried by the returned lessons is approved.
C1_ListingOnlyApproved ==
    (/\ last.op = "index"
     /\ last.outcome = "ok"
     /\ last.user.role \in {"student", "teacher"})
    => \A v \in ExposedVideos(last.lessons) : v.approval_status = "approved"

\* C3: every Video row created by an upload is pending right after its
\* creation, whoever uploaded it.
C3_NewVideoPending ==
    [][last'.op = "upload" =>
          \A v \in videos' :
             v.id \notin VideoIds => v.approval_status = "pending"]_vars

\* an admin's upload has just created a video
C3_Witness ==
    /\ last.op = "upload"
    /\ last.outcome = "ok"
    /\ last.user.role = "admin"
    /\ \E v \in videos : v.id = SetMax(VideoIds) /\ v.approval_status = "pending"

\* C4: from every approval state an admin's update_video_status to every
\* target state (the same state included) succeeds and leaves the video in
\* the target state.
C4_CompleteTransitionGraph ==
    [][\A token \in SessionTokens, video_id \in VideoIds,
          status \in VideoStatus :
          (/\ last'.op = "update"
           /\ Actor(token).role = "admin"
           /\ update_video_status(token, video_id, status)) =>
             /\ last'.outcome = "ok"
             /\ \A v \in videos' :
                   v.id = video_id => v.approval_status = status
             /\ \E v \in videos' : v.id = video_id]_vars

\* an admin has just moved a rejected video to approved
C4_Witness ==
    /\ last.op = "update"
    /\ last.outcome = "ok"
    /\ last.trace = <<"commit", "rejected", "approved">>
    /\ \E v \in videos : v.approval_status = "approved"

\* the external deletions a delete_lesson run attempted
DestroyCalls(trace) ==
    Cardinality({k \in 1 .. Len(trace) :
        trace[k] \in {"destroy: " \o r : r \in DestroyResults}})

C6_MigrationBackfillsApproved ==
    [][(initialize_database /\ schema = "legacy") =>
          /\ schema' = "current"
          /\ \A v \in videos' : v.approval_status = "approved"]_vars

ContentLengths(size) == {NoContentLength, size + MultipartOverhead}

\* C7 as stated: a teacher's or admin's upload with a content type outside
\* the allow-list ends in UnsupportedMediaType with no size check, no Lesson
\* creation and no media-host call, and leaves the store unchanged.
C7_BadTypeBeforeAnySizeCheck ==
    [][last'.op = "upload" =>
         \A token \in SessionTokens, title \in Titles,
            category \in Categories, language \in Languages,
            content_type \in ContentTypes \ allowed_types,
            size \in FileSizes, media \in MediaUploadResults :
            \A content_length \in ContentLengths(size) :
               (Actor(token).role \in {"teacher", "admin"}
                  /\ handle_video_upload(token, title, category, language,
                        content_type, size, content_length, media)) =>
                  /\ last'.outcome = "UnsupportedMediaType"
                  /\ \A k \in 1 .. Len(last'.trace) :
                        last'.trace[k] \notin
                           {"middleware_size_check", "validate_file_size",
                            "lesson_insert", "media_upload"}
                  /\ lessons' = lessons
                  /\ videos' = videos]_vars

\* C7 amended: such an upload, unless the transport-level Content-Length
\* ceiling has already answered it 413, ends in the invalid-file-type
\* failure (status 400) before validate_file_size, any Lesson lookup or
\* creation and any media-host call; in both cases no media-host call is
\* made and the store is unchanged. Stated of the handler's run on every
\* such request in every reachable state.
C7_BadTypeBeforeHandlerSizeCheck ==
    phase = "running" =>
      \A token \in SessionTokens, title \in Titles,
         category \in Categories, language \in Languages,
         content_type \in ContentTypes \ allowed_types,
         size \in FileSizes, media \in MediaUploadResults :
         \A content_length \in ContentLengths(size) :
            Actor(token).role \in {"teacher", "admin"} =>
               LET run == UploadRun(token, title, category, language,
                                    content_type, size, content_length, media)
               IN /\ IF MiddlewareRejects(content_length)
                     THEN run.resp.outcome = "PayloadTooLarge"
                          /\ run.resp.status = 413
                     ELSE run.resp.outcome = "UnsupportedMediaType"
                          /\ run.resp.status = 400
                  /\ \A k \in 1 .. Len(run.resp.trace) :
                        run.resp.trace[k] \notin
                           {"validate_file_size", "lesson_query",
                            "lesson_insert", "media_upload", "video_insert"}
                  /\ run.db.lessons = lessons
                  /\ run.db.videos = videos

\* a teacher's upload was refused for its content type
C7_Witness ==
    /\ last.op = "upload"
    /\ last.outcome = "UnsupportedMediaType"
    /\ last.user.role = "teacher"
    /\ last.trace = <<"validate_file_type">>

\* C8: an upload never changes or removes an existing lesson, a title never
\* has two lessons, and a lesson an upload creates carries the title and
\* the category of that upload.
C8_CategoryFixedAtCreation ==
    [][last'.op = "upload" =>
         /\ \A l \in lessons : l \in lessons'
         /\ \A l1, l2 \in lessons' : l1.title = l2.title => l1 = l2
         /\ lessons' # lessons =>
              \A token \in SessionTokens, title \in Titles,
                 category \in Categories, language \in Languages,
                 content_type \in ContentTypes, size \in FileSizes,
                 media \in MediaUploadResults :
                 \A content_length \in ContentLengths(size) :
                    handle_video_upload(token, title, category, language,
                        content_type, size, content_length, media) =>
                       \A l \in lessons' \ lessons :
                          l.title = title /\ l.category = category]_vars

\* an upload under an existing title named another category: the lesson
\* kept its category, is still the only one of its title, and received the
\* new video
C8_Witness ==
    /\ last.op = "upload"
    /\ last.outcome = "ok"
    /\ \E l \in lessons :
          /\ last.form = <<l.title, "Science">>
          /\ l.category = "Math"
          /\ Cardinality(LessonVideos(l.id)) = 2
          /\ Cardinality(LessonByTitle(l.title)) = 1

\* C9 as stated: a token issued to an existing user resolves to that user
\* at every time before its expiry and to nobody from its expiry on.
C9_ExpiredAtExpiry ==
    [][last'.op = "index" =>
         \A lang \in LangFilters, query_fails \in BOOLEAN,
            fallback_fails \in BOOLEAN :
            (/\ cookie # NoToken
             /\ UserByName(cookie.sub) # None
             /\ index(cookie, lang, query_fails, fallback_fails)) =>
               IF now < cookie.exp
               THEN last'.user = UserByName(cookie.sub)
               ELSE last'.user = None /\ last'.outcome = "LoginRedirect"]_vars

\* C9 amended: in whole seconds, the token resolves to that user at every
\* time up to and including its expiry, and to nobody after it.
C9_ExpiredAfterExpiry ==
    [][last'.op = "index" =>
         \A lang \in LangFilters, query_fails \in BOOLEAN,
            fallback_fails \in BOOLEAN :
            (/\ cookie # NoToken
             /\ UserByName(cookie.sub) # None
             /\ index(cookie, lang, query_fails, fallback_fails)) =>
               IF now <= cookie.exp
               THEN last'.user = UserByName(cookie.sub)
               ELSE last'.user = None /\ last'.outcome = "LoginRedirect"]_vars

\* a token presented at the very second of its expiry resolved to its user
C9_Witness ==
    /\ last.op = "index"
    /\ last.outcome = "ok"
    /\ cookie.sig = "valid"
    /\ cookie.exp = now
    /\ last.user = UserByName(cookie.sub)
    /\ last.user # None

\* the ways a credential fails verification
VerificationFails(token) ==
    \/ token = NoToken
    \/ token.sig # "valid"
    \/ token.exp < now
    \/ token.sub = NoSub
    \/ UserByName(token.sub) = None

\* C10: for a missing, malformed, badly signed, expired, subjectless or
\* unknown-subject credential get_current_user raises nothing and returns
\* None, and the response is the same for every kind of failure.
C10_FailuresResolveToNone ==
    [][last'.op = "index" =>
         \A token \in Presentable, lang \in LangFilters,
            query_fails \in BOOLEAN, fallback_fails \in BOOLEAN :
            (VerificationFails(token)
               /\ index(token, lang, query_fails, fallback_fails)) =>
               /\ get_current_user(token).exc = "none"
               /\ get_current_user(token).user = None
               /\ [last' EXCEPT !.trace = <<>>] =
                     Response("index", "LoginRedirect", 307, None, {}, <<>>)]_vars

\* a validly signed, unexpired token of a deleted user resolved to nobody
C10_Witness ==
    /\ last.op = "index"
    /\ last.outcome = "LoginRedirect"
    /\ last.trace = <<"user_query">>
    /\ cookie.sig = "valid"
    /\ cookie.exp >= now
    /\ cookie.sub = "newbie"
    /\ UserByName(cookie.sub) = None

\* C11: in every reachable state, the handler's run on a teacher's or
\* admin's upload of a 0-byte file with an allow-listed content type ends in
\* EmptyPayload (status 400), not in UploadFailed, calls the media host at
\* no point and adds no Video.
C11_EmptyFileIsEmptyPayload ==
    phase = "running" =>
      \A token \in SessionTokens, title \in Titles,
         category \in Categories, language \in Languages,
         content_type \in ContentTypes \cap allowed_types,
         media \in MediaUploadResults :
         \A content_length \in ContentLengths(0) :
            Actor(token).role \in {"teacher", "admin"} =>
               LET run == UploadRun(token, title, category, language,
                                    content_type, 0, content_length, media)
               IN /\ run.resp.outcome = "EmptyPayload"
                  /\ run.resp.status = 400
                  /\ \A k \in 1 .. Len(run.resp.trace) :
                        run.resp.trace[k] \notin
                           {"media_upload", "video_insert"}
                  /\ run.db.videos = videos

\* a teacher's 0-byte upload was answered 400 after the lesson lookup
C11_Witness ==
    /\ last.op = "upload"
    /\ last.outcome = "EmptyPayload"
    /\ last.status = 400
    /\ last.user.role = "teacher"
    /\ last.trace[Len(last.trace)] \in {"lesson_query", "lesson_insert"}

\* a non-empty file the size check accepts
StorableSizes == {size \in FileSizes : size > 0 /\ validate_file_size(size)}

\* C12: in every reachable state, the handler's run on a teacher's or
\* admin's upload of a valid non-empty file whose media-host call raises or
\* returns no URL or no public_id ends in the upload-failed outcome with no
\* Video added, every earlier Lesson kept, and, when the title was new, the
\* Lesson this upload created left in the store.
C12_LessonSurvivesMediaFailure ==
    phase = "running" =>
      \A token \in SessionTokens, title \in Titles,
         category \in Categories, language \in Languages,
         content_type \in ContentTypes \cap allowed_types,
         size \in StorableSizes, media \in MediaUploadResults \ {"ok"} :
         \A content_length \in ContentLengths(size) :
            Actor(token).role \in {"teacher", "admin"} =>
               LET run == UploadRun(token, title, category, language,
                                    content_type, size, content_length, media)
                   created == [id |-> NextId(lessons), title |-> title,
                               category |-> category]
               IN /\ run.resp.outcome \in
                        {"UploadFailed", "StorageIntegrityError"}
                  /\ run.resp.trace[Len(run.resp.trace)] = "media_upload"
                  /\ run.db.videos = videos
                  /\ run.db.lessons =
                        IF LessonByTitle(title) = {}
                        THEN lessons \cup {created} ELSE lessons

\* an upload created its lesson, the media host then returned no public_id:
\* the lesson is in the store without a video
C12_Witness ==
    /\ last.op = "upload"
    /\ last.outcome = "StorageIntegrityError"
    /\ \E k \in 1 .. Len(last.trace) : last.trace[k] = "lesson_insert"
    /\ \E l \in lessons :
          /\ <<l.title, l.category>> = last.form
          /\ LessonVideos(l.id) = {}

\* C13: under every interleaving of the uploads in flight, no reachable
\* state holds two Lesson rows of one title, and an upload that found no
\* lesson of its title and commits its insert after another has taken the
\* title ends there in the upload-failed outcome, with the lessons and the
\* videos unchanged.
C13_OneLessonPerTitle ==
    /\ [](\A l1, l2 \in lessons : l1.title = l2.title => l1 = l2)
    /\ [][\A w \in Workers :
            (/\ uploads[w].pc = "lesson_insert"
             /\ LessonByTitle(uploads[w].title) # {}
             /\ uploads'[w] # uploads[w]) =>
               /\ last'.op = "upload"
               /\ last'.outcome = "UploadFailed"
               /\ last'.user = uploads[w].user
               /\ uploads'[w] = Idle
               /\ lessons' = lessons
               /\ videos' = videos]_vars

\* two uploads found no lesson of the title; one created it and is still
\* in flight, the other's insert has just failed
C13_Witness ==
    /\ last.op = "upload"
    /\ last.outcome = "UploadFailed"
    /\ last.trace[Len(last.trace)] = "IntegrityError"
    /\ Cardinality(LessonByTitle(last.form[1])) = 1
    /\ \E w \in Workers :
          /\ uploads[w].pc = "file_read"
          /\ uploads[w].title = last.form[1]
          /\ \E l \in LessonByTitle(last.form[1]) :
                /\ l.id = uploads[w].lesson_id
                /\ l.category = uploads[w].category

\* C14: in every reachable state, under every interleaving of uploads,
\* status updates and lesson deletions, each Video row's lesson_id is the id
\* of exactly one Lesson row.
C14_EveryVideoHasItsLesson ==
    \A v \in videos : Cardinality({l \in lessons : l.id = v.lesson_id}) = 1

====
